---- MODULE Spec2Model ----
(***************************************************************************)
(* Model of envs/room.py: the RoomState value type, the RoomEnv state      *)
(* enumeration (enumerate_states), the index lookups (get_num_from_state,  *)
(* get_state_from_num) and the transition function (get_next_state).       *)
(*                                                                         *)
(* A Python dict is a sequence of [k, v] entries in insertion order.       *)
(* Objects that the code shares by reference (the vase_states dicts) live  *)
(* in `heap` and are named by an integer id, so that sharing, copying and  *)
(* in-place update are distinguishable.                                    *)
(***************************************************************************)
EXTENDS Integers, Sequences, FiniteSets, TLC

\* Bounds of the model.
MaxCells == 4       \* width * height <= MaxCells
MaxVases == 2       \* number of vase locations <= MaxVases
MaxCarpets == 1     \* number of carpet locations <= MaxCarpets
MaxFeatures == 2    \* number of feature locations <= MaxFeatures

\* Program constant: self.nA = 5.
nA == 5

VARIABLES
    width,          \* self.width
    height,         \* self.height
    vase_locations, \* self.vase_locations: list of (x, y)
    init_state,     \* self.init_state: a RoomState
    carpet_locations,   \* self.carpet_locations: set of (x, y)
    feature_locations,  \* self.feature_locations: list of (x, y)
    num_features,   \* self.num_features
    heap,           \* id -> dict object (vase_states mappings)
    state_num,      \* self.state_num: dict RoomState -> index
    num_state,      \* self.num_state: dict index -> RoomState
    nS,             \* self.nS
    T,              \* transition table: T[i * nA + a + 1] is the next index
    s,              \* the current state of a trajectory
    si,             \* the same trajectory followed through the table T
    result,         \* outcome of the last public call
    path,           \* history of a walk: sum of deltas, vase cells entered
    changes,        \* history of a walk: steps that changed the vase layout
    pc              \* phase of the environment's life

vars == <<width, height, vase_locations, init_state, carpet_locations,
          feature_locations, num_features, heap, state_num, num_state, nS, T,
          s, si, result, path, changes, pc>>

----------------------------------------------------------------------------
\* Python dict, as a sequence of entries in insertion order.

Keys(d) == {d[i].k : i \in DOMAIN d}

Has(d, key) == \E i \in DOMAIN d : d[i].k = key

Get(d, key) == d[CHOOSE i \in DOMAIN d : d[i].k = key].v

\* d[key] = value: an existing key keeps its place, a new key is appended.
SetItem(d, key, value) ==
    IF Has(d, key)
    THEN [i \in DOMAIN d |-> IF d[i].k = key THEN [k |-> key, v |-> value] ELSE d[i]]
    ELSE Append(d, [k |-> key, v |-> value])

\* dict == dict: same keys, same values, whatever the insertion order.
DictEq(d1, d2) ==
    /\ Keys(d1) = Keys(d2)
    /\ \A key \in Keys(d1) : Get(d1, key) = Get(d2, key)

\* dict(zip(keys, values))
RECURSIVE DictZip(_, _)
DictZip(keys, values) ==
    IF keys = <<>> \/ values = <<>> THEN <<>>
    ELSE LET n == IF Len(keys) < Len(values) THEN Len(keys) ELSE Len(values)
         IN SetItem(DictZip(SubSeq(keys, 1, n - 1), SubSeq(values, 1, n - 1)),
                    keys[n], values[n])

\* list(...): the Python list with the elements of f, built once.
List(f) == f \o <<>>

\* Tuples (x, y) compare lexicographically.
PosLess(p, q) == p[1] < q[1] \/ (p[1] = q[1] /\ p[2] < q[2])

\* sorted(S) for a set of (x, y) tuples
RECURSIVE Sorted(_)
Sorted(S) ==
    IF S = {} THEN <<>>
    ELSE LET m == CHOOSE m \in S : \A o \in S : o = m \/ PosLess(m, o)
         IN <<m>> \o Sorted(S \ {m})

----------------------------------------------------------------------------
\* RoomState

\* RoomState(agent_pos, vase_states): vase_states is a reference (heap id).
RoomState(agent_pos, vase_states) ==
    [agent_pos |-> agent_pos, vase_states |-> vase_states]

\* The content of a state object: its position and the dict it refers to.
Content(h, state) ==
    [agent_pos |-> state.agent_pos, vase_states |-> h[state.vase_states]]

\* RoomState.__eq__ on contents
RoomState_eq(a, b) ==
    /\ a.agent_pos = b.agent_pos
    /\ DictEq(a.vase_states, b.vase_states)

\* Variant: the values in insertion order.
get_vals_insertion_order(dictionary) ==
    [i \in DOMAIN dictionary |-> dictionary[i].v]

\* get_vals of RoomState.__hash__: the values in sorted key order
get_vals(dictionary) ==
    LET locs == Sorted(Keys(dictionary))
    IN [i \in DOMAIN locs |-> Get(dictionary, locs[i])]

\* RoomState.__hash__ on contents: the hashed tuple stands for its hash
RoomState_hash(a) == a.agent_pos \o get_vals(a.vase_states)

----------------------------------------------------------------------------
\* Object store

\* The ids the next n newly created objects get: the first n unused ones.
Alloc(h, n) ==
    SubSeq(SelectSeq([i \in 1..(Cardinality(DOMAIN h) + n) |-> i - 1],
                     LAMBDA i : i \notin DOMAIN h), 1, n)

\* The id a newly created object gets.
NewId(h) == Alloc(h, 1)[1]

\* Variant: the copy is taken from the initial state's dict (object 0).
deepcopy_of_init(h, id) ==
    LET new == NewId(h)
    IN [id |-> new, heap |-> h @@ (new :> h[0])]

\* Variant: no copy is made, the object itself is returned.
deepcopy_alias(h, id) == [id |-> id, heap |-> h]

\* deepcopy(obj): a new object with the same content.
deepcopy(h, id) ==
    LET new == NewId(h)
    IN [id |-> new, heap |-> h @@ (new :> h[id])]

----------------------------------------------------------------------------
\* Direction utility (envs/utils.py): action numbers and their deltas.

NORTH == 0
SOUTH == 1
EAST == 2
WEST == 3
STAY == 4

Actions == 0..(nA - 1)

\* Direction.get_direction_from_number
get_direction_from_number(action) ==
    CASE action = NORTH -> <<0, -1>>
      [] action = SOUTH -> <<0, 1>>
      [] action = EAST -> <<1, 0>>
      [] action = WEST -> <<-1, 0>>
      [] action = STAY -> <<0, 0>>

\* Direction.move_in_direction_number(point, action)
move_in_direction_number(point, action) ==
    LET d == get_direction_from_number(action)
    IN <<point[1] + d[1], point[2] + d[2]>>

----------------------------------------------------------------------------
\* RoomEnv.s_to_f

\* int(b) of a bool
int(b) == IF b THEN 1 ELSE 0

\* Variant: the intact vases are counted.
s_to_f_counts_intact(state) ==
    <<Cardinality({i \in DOMAIN state.vase_states : state.vase_states[i].v}),
      int(state.agent_pos \in carpet_locations)>>
        \o [k \in DOMAIN feature_locations |->
               int(state.agent_pos = feature_locations[k])]

\* s_to_f on the content of a state: the feature vector, as a list.
s_to_f(state) ==
    LET num_broken_vases ==
            Cardinality({i \in DOMAIN state.vase_states : ~state.vase_states[i].v})
        carpet_feature == int(state.agent_pos \in carpet_locations)
        features == [k \in DOMAIN feature_locations |->
                        int(state.agent_pos = feature_locations[k])]
    IN <<num_broken_vases, carpet_feature>> \o features

----------------------------------------------------------------------------
\* RoomEnv.get_next_state

\* Variant: the upper bounds are inclusive.
in_bounds_inclusive(new_x, new_y) ==
    0 <= new_x /\ new_x <= width /\ 0 <= new_y /\ new_y <= height

\* Variant: the lower bounds are not tested.
in_bounds_upper_only(new_x, new_y) ==
    new_x < width /\ new_y < height

\* 0 <= new_x < self.width and 0 <= new_y < self.height
in_bounds(new_x, new_y) ==
    0 <= new_x /\ new_x < width /\ 0 <= new_y /\ new_y < height

\* Variant: the vase is never broken.
break_vase_never(new_vase_states, new_agent_pos) == new_vase_states

\* Variant: the flag is flipped instead of cleared.
break_vase_toggle(new_vase_states, new_agent_pos) ==
    IF Has(new_vase_states, new_agent_pos)
    THEN SetItem(new_vase_states, new_agent_pos,
                 ~Get(new_vase_states, new_agent_pos))
    ELSE new_vase_states

\* Variant: the assignment is made without the membership test.
break_vase_unguarded(new_vase_states, new_agent_pos) ==
    SetItem(new_vase_states, new_agent_pos, FALSE)

\* if new_agent_pos in new_vase_states: new_vase_states[new_agent_pos] = False
break_vase(new_vase_states, new_agent_pos) ==
    IF Has(new_vase_states, new_agent_pos)
    THEN SetItem(new_vase_states, new_agent_pos, FALSE)
    ELSE new_vase_states

\* Returns the new state object and the heap after the call.
get_next_state(h, state, action) ==
    LET moved == move_in_direction_number(state.agent_pos, action)
        new_agent_pos == IF in_bounds(moved[1], moved[2]) THEN moved
                         ELSE state.agent_pos
        c == deepcopy(h, state.vase_states)
        new_vase_states == c.id
    IN [state |-> RoomState(new_agent_pos, new_vase_states),
        heap |-> [c.heap EXCEPT ![new_vase_states] =
                     break_vase(c.heap[new_vase_states], new_agent_pos)]]

----------------------------------------------------------------------------
\* The dict state_num: entries [hash, key, val] in insertion order; a key is
\* found by its stored hash and then by __eq__.

Find(h, sn, a) ==
    LET hash == RoomState_hash(a)
    IN {i \in DOMAIN sn : /\ sn[i].hash = hash
                          /\ RoomState_eq(Content(h, sn[i].key), a)}

\* state in state_num
Contains(h, sn, a) == Find(h, sn, a) # {}

\* Variant: indices start at 1.
new_index_from_one(len_state_num) == len_state_num + 1

\* len(state_num), the index given to a state that is not yet a key
new_index(len_state_num) == len_state_num

\* product([True, False], repeat=n): the last position varies fastest
RECURSIVE product(_)
product(repeat) ==
    IF repeat = 0 THEN << <<>> >>
    ELSE LET prev == product(repeat - 1)
         IN List([i \in 1..(2 * Len(prev)) |->
                     Append(prev[(i + 1) \div 2], i % 2 = 1)])

\* Variant: no position is skipped.
on_intact_vase_never(vase_states, pos) == FALSE

\* if pos in vase_states and vase_states[pos]: continue
on_intact_vase(vase_states, pos) ==
    Has(vase_states, pos) /\ Get(vase_states, pos)

\* for y in range(height): for x in range(width): the i-th position visited
LoopPos(i) == <<(i - 1) % width, (i - 1) \div width>>

\* The loops of enumerate_states. Each layout of product(...) gets one new
\* dict object, which all the states of that layout share. `visited` lists
\* the (pos, vase_states) pairs in loop order, `kept` those not skipped by
\* `continue`; a kept state is inserted when no state inserted before it has
\* its hash and is equal to it, and gets the number of keys inserted so far.
enumerate_loops(h) ==
    LET layouts == product(Len(vase_locations))
        ids == Alloc(h, Len(layouts))
        h2 == [i \in {ids[j] : j \in DOMAIN ids} |->
                  DictZip(vase_locations,
                          layouts[CHOOSE j \in DOMAIN ids : ids[j] = i])] @@ h
        n == width * height
        visited == [k \in 1..(Len(layouts) * n) |->
                       RoomState(LoopPos(((k - 1) % n) + 1),
                                 ids[((k - 1) \div n) + 1])]
        kept == SelectSeq(visited,
                    LAMBDA st : ~on_intact_vase(h2[st.vase_states], st.agent_pos))
        cont == List([m \in DOMAIN kept |-> Content(h2, kept[m])])
        hash == List([m \in DOMAIN kept |-> RoomState_hash(cont[m])])
        fresh == SelectSeq([m \in DOMAIN kept |-> m],
                     LAMBDA m : \A m2 \in 1..(m - 1) :
                         ~(hash[m2] = hash[m] /\ RoomState_eq(cont[m2], cont[m])))
    IN [state_num |-> List([r \in DOMAIN fresh |->
                              [hash |-> hash[fresh[r]], key |-> kept[fresh[r]],
                               val |-> new_index(r - 1)]]),
        heap |-> h2]

\* {v: k for k, v in self.state_num.items()}
invert(sn) ==
    [n \in {sn[i].val : i \in DOMAIN sn} |->
        sn[CHOOSE i \in DOMAIN sn :
              sn[i].val = n /\ \A j \in DOMAIN sn : sn[j].val = n => j <= i].key]

----------------------------------------------------------------------------
\* Index lookups. A call returns a value or raises KeyError.

None == [kind |-> "None"]
KeyError == [kind |-> "KeyError"]

\* Variant: a missing state is given the next index (setdefault).
get_num_from_state_insert(h, sn, a) ==
    LET found == Find(h, sn, a)
        added == Append(sn, [hash |-> RoomState_hash(a),
                             key |-> RoomState(a.agent_pos, 0), val |-> Len(sn)])
    IN [ret |-> [kind |-> "num",
                 val |-> IF found # {} THEN sn[CHOOSE i \in found : TRUE].val
                         ELSE Len(sn)],
        state_num |-> IF found # {} THEN sn ELSE added]

\* self.state_num[state]; yields the return value and the dict afterwards
get_num_from_state(h, sn, a) ==
    LET found == Find(h, sn, a)
    IN [ret |-> IF found # {}
                THEN [kind |-> "num", val |-> sn[CHOOSE i \in found : TRUE].val]
                ELSE KeyError,
        state_num |-> sn]

\* self.num_state[num]
get_state_from_num(ns, num) ==
    IF num \in DOMAIN ns THEN [kind |-> "state", val |-> ns[num]] ELSE KeyError

----------------------------------------------------------------------------
\* Object lifetime

\* The dict objects that the environment's own fields refer to.
TableIds(init, sn, ns) ==
    {init.vase_states} \cup {sn[i].key.vase_states : i \in DOMAIN sn}
                       \cup {ns[n].vase_states : n \in DOMAIN ns}

\* Objects nothing refers to any more are dropped.
Collect(h, live) == [i \in (DOMAIN h) \cap live |-> h[i]]

\* A call replaced the caller's state `old` by `new`: when nothing else
\* refers to old's dict, it is freed and its storage holds new's dict.
Reclaim(h, new, old, kept) ==
    IF old.vase_states \in kept \/ old.vase_states = new.vase_states
    THEN [state |-> new, heap |-> Collect(h, kept \cup {new.vase_states})]
    ELSE [state |-> RoomState(new.agent_pos, old.vase_states),
          heap |-> [i \in ((DOMAIN h) \cap kept) \cup {old.vase_states} |->
                       IF i = old.vase_states THEN h[new.vase_states] ELSE h[i]]]

----------------------------------------------------------------------------
\* Matrix builder (DeterministicEnv.make_transition_matrices): for every
\* (state index, action) decode, apply get_next_state, encode. The successor
\* is a temporary object, dropped once it is encoded.

transition_entry(h, sn, ns, i, action) ==
    LET state == get_state_from_num(ns, i)
    IN IF state.kind = "KeyError" THEN KeyError
       ELSE LET r == get_next_state(h, state.val, action)
            IN get_num_from_state(r.heap, sn, Content(r.heap, r.state)).ret

\* Row-major: position i * nA + action + 1 holds the entry of (i, action).
fill_transitions(h, sn, ns, n) ==
    [k \in 1..(n * nA) |->
            transition_entry(h, sn, ns, (k - 1) \div nA, (k - 1) % nA)]

----------------------------------------------------------------------------
\* The environment

Grids == {g \in (1..MaxCells) \X (1..MaxCells) : g[1] * g[2] <= MaxCells}

Cells(w, h) == (0..(w - 1)) \X (0..(h - 1))

Reverse(q) == [i \in DOMAIN q |-> q[Len(q) + 1 - i]]

\* RoomEnv.__init__ up to self.reset(): the fields after construction from a
\* spec with a g[1] x g[2] grid, an init_state with the agent at pos and the
\* vases locs (in insertion order) flagged flags, and the given carpet and
\* feature locations.
Setup(g, locs, flags, pos, carpets, feats) ==
    /\ width = g[1]
    /\ height = g[2]
    /\ init_state = RoomState(pos, 0)
    /\ heap = (0 :> DictZip(locs, flags))
    /\ vase_locations = locs
    /\ carpet_locations = carpets
    /\ feature_locations = feats
    /\ num_features = Len(s_to_f([agent_pos |-> pos,
                                   vase_states |-> DictZip(locs, flags)]))
    /\ state_num = <<>>
    /\ num_state = <<>>
    /\ nS = 0
    /\ T = <<>>
    /\ s = RoomState(pos, 0)
    /\ si = None
    /\ result = None
    /\ path = [ok |-> TRUE, delta |-> <<0, 0>>, entered |-> {}]
    /\ changes = 0
    /\ pc = "new"

\* An environment without carpets and features, for a spec whose init_state
\* has an in-bounds agent and at most MaxVases vases on the grid. The vases
\* were inserted in descending order, the opposite of the order __hash__
\* sorts them into.
Init ==
    \E g \in Grids :
    \E V \in SUBSET Cells(g[1], g[2]) :
    \E locs \in {Reverse(Sorted(V))} :
    \E flags \in [DOMAIN locs -> BOOLEAN] :
    \E pos \in Cells(g[1], g[2]) :
        /\ Cardinality(V) <= MaxVases
        /\ Setup(g, locs, flags, pos, {}, <<>>)

\* states = self.enumerate_states()
enumerate_states ==
    /\ pc = "new"
    /\ LET e == enumerate_loops(heap)
           ns == invert(e.state_num)
       IN /\ state_num' = e.state_num
          /\ num_state' = ns
          /\ nS' = Len(e.state_num)
          /\ heap' = Collect(e.heap, TableIds(init_state, e.state_num, ns)
                                       \cup {s.vase_states})
    /\ pc' = "enumerated"
    /\ UNCHANGED <<width, height, vase_locations, init_state, carpet_locations,
                   feature_locations, num_features, path, changes, T, s, si, result>>

\* self.make_transition_matrices(states, range(self.nA), self.nS, self.nA)
make_transition_matrices ==
    /\ pc = "enumerated"
    /\ LET P == fill_transitions(heap, state_num, num_state, nS)
           ok == \A k \in DOMAIN P : P[k].kind = "num"
       IN /\ T' = IF ok THEN [k \in DOMAIN P |-> P[k].val] ELSE <<>>
          /\ pc' = IF ok THEN "ready" ELSE "KeyError"
    /\ UNCHANGED <<width, height, vase_locations, init_state, carpet_locations,
                   feature_locations, num_features, path, changes, heap, state_num,
                   num_state, nS, s, si, result>>

\* One step of a trajectory, taken twice: s = get_next_state(s, action) on
\* the state, and i = T[i, action] on the index of the start state.
Step(action) ==
    /\ pc = "ready"
    /\ LET r == get_next_state(heap, s, action)
           k == Reclaim(r.heap, r.state, s,
                        TableIds(init_state, state_num, num_state))
           i == IF si = None
                THEN get_num_from_state(heap, state_num, Content(heap, s)).ret
                ELSE si
       IN /\ s' = k.state
          /\ heap' = k.heap
          /\ si' = IF i.kind = "num"
                   THEN [kind |-> "num", val |-> T[i.val * nA + action + 1]]
                   ELSE i
    /\ result' = None
    /\ UNCHANGED <<width, height, vase_locations, init_state, carpet_locations,
                   feature_locations, num_features, path, changes, state_num,
                   num_state, nS, T, pc>>

\* The states a caller builds from the initial one to look up: the state
\* itself, its vases re-inserted in reverse order, the agent outside the grid,
\* the agent on a vase marked intact, a vase missing, a vase too many.
Queries ==
    LET c == Content(heap, init_state)
        d == c.vase_states
    IN {c, [c EXCEPT !.vase_states = Reverse(d)],
           [c EXCEPT !.agent_pos = <<width, 0>>],
           [c EXCEPT !.vase_states = Append(d, [k |-> <<width, 0>>, v |-> FALSE])]}
       \cup {[agent_pos |-> d[i].k, vase_states |-> SetItem(d, d[i].k, TRUE)] :
                i \in (DOMAIN d) \cap {1}}
       \cup {[c EXCEPT !.vase_states = SubSeq(d, 2, Len(d))] : i \in DOMAIN d}

\* get_num_from_state(query)
GetNum(query) ==
    /\ pc = "ready"
    /\ si = None
    /\ LET r == get_num_from_state(heap, state_num, query)
       IN /\ result' = [op |-> "get_num_from_state", arg |-> query] @@ r.ret
          /\ state_num' = r.state_num
    /\ UNCHANGED <<width, height, vase_locations, init_state, carpet_locations,
                   feature_locations, num_features, path, changes, heap, num_state,
                   nS, T, s, si, pc>>

\* get_state_from_num(num)
GetState(num) ==
    /\ pc = "ready"
    /\ si = None
    /\ result' = [op |-> "get_state_from_num", arg |-> num]
                    @@ get_state_from_num(num_state, num)
    /\ UNCHANGED <<width, height, vase_locations, init_state, carpet_locations,
                   feature_locations, num_features, path, changes, heap, state_num,
                   num_state, nS, T, s, si, pc>>

Next ==
    \/ enumerate_states
    \/ make_transition_matrices
    \/ \E action \in Actions : Step(action)
    \/ \E query \in Queries : GetNum(query)
    \/ \E num \in {-1, 0, nS} : GetState(num)

Spec == Init /\ [][Next]_vars

\* The lists of at most n cells of a w x h grid, repeats allowed.
CellLists(w, h, n) == UNION {[1..m -> Cells(w, h)] : m \in 0..n}

\* An environment with carpets and features, built with
\* compute_transitions=False from a spec whose init_state has the agent in
\* the corner (0, 0) and k broken vases, on the first k cells of the grid.
InitF ==
    \E g \in Grids :
    \E k \in 0..MaxVases :
    \E carpets \in SUBSET Cells(g[1], g[2]) :
    \E feats \in CellLists(g[1], g[2], MaxFeatures) :
        /\ k <= g[1] * g[2]
        /\ Cardinality(carpets) <= MaxCarpets
        /\ LET locs == Reverse(SubSeq(Sorted(Cells(g[1], g[2])), 1, k))
           IN Setup(g, locs, [i \in DOMAIN locs |-> FALSE], <<0, 0>>,
                    carpets, feats)

\* The caller enumerates the states.
NextF == enumerate_states

SpecF == InitF /\ [][NextF]_vars

\* One step of a walk in an environment built with compute_transitions=False:
\* s = get_next_state(s, action). The history records whether every move so
\* far stayed on the grid and, while that is so, the sum of the deltas and
\* the vase locations the agent arrived at; and it counts the steps whose
\* result has another vase layout than their input.
Walk(action) ==
    /\ pc = "new"
    /\ changes <= Len(vase_locations)
    /\ LET r == get_next_state(heap, s, action)
           k == Reclaim(r.heap, r.state, s,
                        TableIds(init_state, state_num, num_state))
           before == Content(heap, s)
           after == Content(r.heap, r.state)
           d == get_direction_from_number(action)
           inside == <<before.agent_pos[1] + d[1], before.agent_pos[2] + d[2]>>
                        \in Cells(width, height)
       IN /\ s' = k.state
          /\ heap' = k.heap
          /\ path' = IF path.ok /\ inside
                     THEN [ok |-> TRUE,
                           delta |-> <<path.delta[1] + d[1], path.delta[2] + d[2]>>,
                           entered |-> path.entered \cup
                                          ({after.agent_pos} \cap Keys(after.vase_states))]
                     ELSE [ok |-> FALSE, delta |-> <<0, 0>>, entered |-> {}]
          /\ changes' = changes +
                           int(~DictEq(after.vase_states, before.vase_states))
    /\ UNCHANGED <<width, height, vase_locations, init_state, carpet_locations,
                   feature_locations, num_features, state_num, num_state, nS,
                   T, si, result, pc>>

NextWalk == \E action \in Actions : Walk(action)

\* A walk of any length, finite or infinite.
SpecWalk == Init /\ [][NextWalk]_vars

----------------------------------------------------------------------------
\* Vocabulary of the properties

\* A dict as the mapping it denotes.
AsMap(d) == [key \in Keys(d) |-> Get(d, key)]

VaseSet == {vase_locations[i] : i \in DOMAIN vase_locations}

InGrid(pos) == pos \in Cells(width, height)

\* The agent stands on a vase location whose flag is True.
AgentOnIntact(c) ==
    \E i \in DOMAIN c.vase_states :
        c.vase_states[i].k = c.agent_pos /\ c.vase_states[i].v

\* The valid states: agent on the grid, one flag per vase location, agent not
\* on an intact vase.
ValidState(c) ==
    /\ InGrid(c.agent_pos)
    /\ Keys(c.vase_states) = VaseSet
    /\ Len(c.vase_states) = Cardinality(VaseSet)
    /\ ~AgentOnIntact(c)

\* The content of the trajectory's current state, of the initial state, and
\* of get_next_state(s, action).
Cur == Content(heap, s)

InitContent == Content(heap, init_state)

Succ(action) ==
    LET r == get_next_state(heap, s, action)
    IN Content(r.heap, r.state)

\* c is the content of a key of state_num.
Enumerated(c) ==
    \E i \in DOMAIN state_num :
        LET e == Content(heap, state_num[i].key)
        IN e.agent_pos = c.agent_pos /\ AsMap(e.vase_states) = AsMap(c.vase_states)

Built == pc \in {"enumerated", "ready"}

\* C1: closure. Whenever the current state is a key of state_num, the state
\* get_next_state returns for it is a key of state_num, for every action.
C1_Closure ==
    (Built /\ Enumerated(Cur)) =>
        \A action \in Actions : Enumerated(Succ(action))

\* A trajectory that started in an enumerated state has moved to another one
\* and broken a vase on the way.
C1_Witness ==
    /\ pc = "ready"
    /\ si.kind = "num"
    /\ Enumerated(Cur)
    /\ Cur.agent_pos # InitContent.agent_pos
    /\ AsMap(Cur.vase_states) # AsMap(InitContent.vase_states)

\* C2: validity. No key of state_num has the agent on an intact vase, and
\* neither has the state get_next_state returns for the current state
\* (enumerated or not, agent in bounds) and any action.
C2_Validity ==
    /\ pc = "enumerated" =>
          \A i \in DOMAIN state_num :
              ~AgentOnIntact(Content(heap, state_num[i].key))
    /\ InGrid(Cur.agent_pos) =>
          \A action \in Actions : ~AgentOnIntact(Succ(action))

\* The initial state had the agent on an intact vase and a step was taken
\* from it; the current state stands on that vase.
C2_Witness ==
    /\ pc = "ready"
    /\ AgentOnIntact(InitContent)
    /\ si = KeyError
    /\ Cur.agent_pos = InitContent.agent_pos

SameState(a, b) ==
    a.agent_pos = b.agent_pos /\ AsMap(a.vase_states) = AsMap(b.vase_states)

\* Every (position, layout) pair of the grid, as a state content.
AllContents ==
    {[agent_pos |-> pos, vase_states |-> DictZip(vase_locations, flags)] :
        pos \in Cells(width, height),
        flags \in [DOMAIN vase_locations -> BOOLEAN]}

\* C3: after enumerate_states, state_num and num_state are mutually inverse
\* bijections between exactly the valid states and 0..nS-1: both round trips
\* are the identity, no two states share an index, the indices are dense.
C3_Bijection ==
    pc = "enumerated" =>
        /\ nS = Len(state_num)
        /\ {state_num[i].val : i \in DOMAIN state_num} = 0..(nS - 1)
        /\ DOMAIN num_state = 0..(nS - 1)
        /\ \A i, j \in DOMAIN state_num :
              i # j => /\ state_num[i].val # state_num[j].val
                       /\ ~SameState(Content(heap, state_num[i].key),
                                     Content(heap, state_num[j].key))
        /\ \A i \in DOMAIN state_num :
              \A n \in {get_num_from_state(heap, state_num,
                                           Content(heap, state_num[i].key)).ret} :
                  /\ n.kind = "num"
                  /\ \A b \in {get_state_from_num(num_state, n.val)} :
                        /\ b.kind = "state"
                        /\ SameState(Content(heap, b.val),
                                     Content(heap, state_num[i].key))
        /\ \A n \in 0..(nS - 1) :
              \A b \in {get_state_from_num(num_state, n)} :
                  /\ b.kind = "state"
                  /\ get_num_from_state(heap, state_num, Content(heap, b.val)).ret
                        = [kind |-> "num", val |-> n]
        /\ \A i \in DOMAIN state_num : ValidState(Content(heap, state_num[i].key))
        /\ \A c \in AllContents : ValidState(c) => Enumerated(c)

\* Enumeration has run on a grid where some position was skipped and several
\* states were indexed.
C3_Witness ==
    /\ pc = "enumerated"
    /\ nS >= 2
    /\ \E c \in AllContents : ~ValidState(c)

\* C4: nS is the number of (position, layout) pairs in which the position is
\* not a vase location marked intact; width * height when there is no vase.
C4_Count ==
    Built =>
        /\ nS = Cardinality({pl \in Cells(width, height) \X [VaseSet -> BOOLEAN] :
                                ~(pl[1] \in VaseSet /\ pl[2][pl[1]])})
        /\ VaseSet = {} => nS = width * height

\* Enumeration has run with two or more vases on a grid with free cells.
C4_Witness ==
    /\ pc = "enumerated"
    /\ Cardinality(VaseSet) >= 2
    /\ Cardinality(VaseSet) < width * height
    /\ nS > width * height

\* C5: boundary clamp. For the current state (agent in bounds) and every
\* action, get_next_state keeps the agent where it is when position + delta
\* is off the grid and moves it there otherwise; the result is on the grid.
C5_Clamp ==
    InGrid(Cur.agent_pos) =>
        \A action \in Actions :
            \A cand \in {<<Cur.agent_pos[1] + get_direction_from_number(action)[1],
                           Cur.agent_pos[2] + get_direction_from_number(action)[2]>>} :
                /\ InGrid(cand) => Succ(action).agent_pos = cand
                /\ ~InGrid(cand) => Succ(action).agent_pos = Cur.agent_pos
                /\ InGrid(Succ(action).agent_pos)

\* A trajectory has stepped and is in the corner (0, 0) of a grid with room
\* to move: WEST and NORTH are clamped there, EAST and SOUTH are not.
C5_Witness ==
    /\ pc = "ready"
    /\ si # None
    /\ Cur.agent_pos = <<0, 0>>
    /\ InitContent.agent_pos # <<0, 0>>
    /\ width >= 2
    /\ height >= 2

\* C6: vase breaking. In the state get_next_state returns, for every action,
\* a vase at the agent's position is flagged False, whatever it was before.
C6_Break ==
    \A action \in Actions :
        \A n \in {Succ(action)} :
            \A i \in DOMAIN n.vase_states :
                n.vase_states[i].k = n.agent_pos => ~n.vase_states[i].v

\* A trajectory has stepped onto a vase that the initial state had intact;
\* the vase is now broken, and staying on it steps onto a broken vase.
C6_Witness ==
    /\ pc = "ready"
    /\ si # None
    /\ Cur.agent_pos # InitContent.agent_pos
    /\ Has(Cur.vase_states, Cur.agent_pos)
    /\ ~Get(Cur.vase_states, Cur.agent_pos)
    /\ Get(InitContent.vase_states, Cur.agent_pos)

\* C7: frame. The state get_next_state returns has the vase locations of its
\* input, and every location other than the new agent position keeps its
\* flag: at most one flag changes.
C7_Frame ==
    \A action \in Actions :
        \A n \in {Succ(action)} :
            /\ Keys(n.vase_states) = Keys(Cur.vase_states)
            /\ Len(n.vase_states) = Len(Cur.vase_states)
            /\ \A key \in Keys(Cur.vase_states) :
                  key # n.agent_pos =>
                      Get(n.vase_states, key) = Get(Cur.vase_states, key)
            /\ Cardinality({key \in Keys(Cur.vase_states) :
                               Get(n.vase_states, key) # Get(Cur.vase_states, key)})
                  <= 1

\* A trajectory has stepped onto one of two vases and broken it; the other
\* one is still intact, and a cell without a vase is one step away.
C7_Witness ==
    /\ pc = "ready"
    /\ si # None
    /\ Len(Cur.vase_states) >= 2
    /\ Has(Cur.vase_states, Cur.agent_pos)
    /\ Get(InitContent.vase_states, Cur.agent_pos)
    /\ \E key \in Keys(Cur.vase_states) : Get(Cur.vase_states, key)
    /\ \E action \in Actions : ~Has(Cur.vase_states, Succ(action).agent_pos)

\* C8: breaking is irreversible. In every step of every behaviour, a vase
\* location whose flag is False in the current state of the trajectory is
\* still a location of the next current state, and its flag is still False:
\* no application of get_next_state turns a flag from False to True.
C8_Irreversible ==
    [][\A i \in DOMAIN Cur.vase_states :
          ~Cur.vase_states[i].v =>
              \E j \in DOMAIN Cur'.vase_states :
                  /\ Cur'.vase_states[j].k = Cur.vase_states[i].k
                  /\ ~Cur'.vase_states[j].v]_vars

\* A trajectory broke a vase that the initial state had intact and has left
\* it since: the vase is still broken.
C8_Witness ==
    /\ pc = "ready"
    /\ si # None
    /\ \E key \in Keys(Cur.vase_states) :
          /\ Get(InitContent.vase_states, key)
          /\ ~Get(Cur.vase_states, key)
          /\ key # Cur.agent_pos

\* The index of a state content, or KeyError.
IndexOf(c) == get_num_from_state(heap, state_num, c).ret

\* C9: the construction never raises KeyError; the table has nS * nA entries;
\* right after it is built, the entry of every (i, action) is the index of
\* get_next_state(get_state_from_num(i), action), a lookup that succeeds; at
\* every step of a trajectory that started in an enumerated state, the index
\* reached through the table is the index of the state reached through
\* get_next_state, and the row of that index holds the indices of its
\* successors.
C9_TableAgrees ==
    /\ pc # "KeyError"
    /\ pc = "ready" =>
          /\ Len(T) = nS * nA
          /\ (si = None /\ result = None) =>
                \A i \in 0..(nS - 1) : \A action \in Actions :
                    \A st \in {get_state_from_num(num_state, i)} :
                        /\ st.kind = "state"
                        /\ \A r \in {get_next_state(heap, st.val, action)} :
                              IndexOf(Content(r.heap, r.state)) =
                                  [kind |-> "num", val |-> T[i * nA + action + 1]]
          /\ si.kind = "num" => si = IndexOf(Cur)
          /\ \A n \in {IndexOf(Cur)} :
                n.kind = "num" =>
                    \A action \in Actions :
                        IndexOf(Succ(action)) =
                            [kind |-> "num", val |-> T[n.val * nA + action + 1]]

\* A trajectory that started in an enumerated state has been followed through
\* the table to a state other than the initial one, with a vase broken on the
\* way.
C9_Witness ==
    /\ pc = "ready"
    /\ si.kind = "num"
    /\ nS >= 4
    /\ ~SameState(Cur, InitContent)
    /\ \E key \in Keys(Cur.vase_states) :
          Get(InitContent.vase_states, key) /\ ~Get(Cur.vase_states, key)

\* C10: a lookup that fails is loud and has no side effect. In every step
\* that makes a lookup: state_num, num_state and nS are unchanged;
\* get_num_from_state of a state that is not a key of state_num raises
\* KeyError; get_state_from_num of an index outside 0..nS-1 raises KeyError.
C10_LookupFailure ==
    [][result'.kind # "None" =>
          /\ UNCHANGED <<state_num, num_state, nS>>
          /\ (result'.op = "get_num_from_state" /\ ~Enumerated(result'.arg))
                => result'.kind = "KeyError"
          /\ (result'.op = "get_state_from_num" /\ result'.arg \notin 0..(nS - 1))
                => result'.kind = "KeyError"]_vars

\* get_num_from_state was called with a state whose vase locations are not
\* those of the environment, and raised KeyError; the index is as enumerated.
C10_Witness ==
    /\ result.kind = "KeyError"
    /\ result.op = "get_num_from_state"
    /\ Keys(result.arg.vase_states) # VaseSet
    /\ InGrid(result.arg.agent_pos)
    /\ nS >= 2
    /\ Len(state_num) = nS

\* C11: for every enumerated state, s_to_f returns a vector of length
\* 2 + |feature_locations| (the length __init__ stored in num_features);
\* component 0 is the number of vase locations flagged False, between 0 and
\* the number of vases; component 1 is 1 when the agent is on a carpet and 0
\* otherwise; component 2 + k is 1 when the agent is at feature_locations[k]
\* and 0 otherwise. (Components are numbered from 0, sequences from 1.)
C11_Features ==
    pc = "enumerated" =>
        \A n \in 0..(nS - 1) :
            \A c \in {Content(heap, num_state[n])} :
                \A f \in {s_to_f(c)} :
                    /\ Len(f) = 2 + Len(feature_locations)
                    /\ Len(f) = num_features
                    /\ f[1] = Cardinality({key \in VaseSet :
                                              ~AsMap(c.vase_states)[key]})
                    /\ f[1] \in 0..Len(vase_locations)
                    /\ f[2] = (IF c.agent_pos \in carpet_locations THEN 1 ELSE 0)
                    /\ \A k \in 1..Len(feature_locations) :
                          f[2 + k] = (IF c.agent_pos = feature_locations[k]
                                      THEN 1 ELSE 0)

\* The states are enumerated in an environment with a carpet, two distinct
\* feature locations and two vases; one enumerated state has the agent on the
\* carpet and on the second feature location, with one vase broken and one
\* intact, so that its vector is <<1, 1, 0, 1>>.
C11_Witness ==
    /\ pc = "enumerated"
    /\ num_features = 4
    /\ Len(vase_locations) = 2
    /\ feature_locations[1] # feature_locations[2]
    /\ \E n \in 0..(nS - 1) :
          s_to_f(Content(heap, num_state[n])) = <<1, 1, 0, 1>>

\* C12: STAY is the identity on valid states. For an enumerated current
\* state, get_next_state(s, STAY) is equal to it (by __eq__, and as position
\* and layout). For any current state, STAY keeps the agent position, and it
\* changes the layout only when the agent stands on an intact vase.
C12_StayIdentity ==
    \A n \in {Succ(STAY)} :
        /\ (Built /\ Enumerated(Cur)) =>
              /\ RoomState_eq(n, Cur)
              /\ SameState(n, Cur)
        /\ n.agent_pos = Cur.agent_pos
        /\ AsMap(n.vase_states) # AsMap(Cur.vase_states) => AgentOnIntact(Cur)

\* A trajectory has moved onto a vase, which is broken now; staying there
\* leaves the state as it is, and the table's STAY entry is a self-loop.
C12_Witness ==
    /\ pc = "ready"
    /\ si.kind = "num"
    /\ Cur.agent_pos # InitContent.agent_pos
    /\ Has(Cur.vase_states, Cur.agent_pos)
    /\ \E key \in Keys(Cur.vase_states) : Get(Cur.vase_states, key)
    /\ SameState(Succ(STAY), Cur)
    /\ T[si.val * nA + STAY + 1] = si.val

\* Component-wise sum of two pairs.
Plus(p, q) == <<p[1] + q[1], p[2] + q[2]>>

\* C13: trajectory effect. After a walk from a valid start state in which no
\* move left the grid, the agent is at the start position plus the sum of the
\* deltas, every vase location it arrived at is flagged False, and every
\* other vase location has its starting flag. In particular, on a 2 x 2 grid
\* with one intact vase at (1, 1) and the agent starting at (0, 0), EAST then
\* SOUTH ends at (1, 1) with the vase flagged False.
C13_Trajectory ==
    /\ (path.ok /\ ValidState(InitContent)) =>
          /\ Cur.agent_pos = Plus(InitContent.agent_pos, path.delta)
          /\ Keys(Cur.vase_states) = VaseSet
          /\ \A key \in VaseSet :
                /\ key \in path.entered => ~Get(Cur.vase_states, key)
                /\ key \notin path.entered =>
                      Get(Cur.vase_states, key) = Get(InitContent.vase_states, key)
    /\ (/\ width = 2
        /\ height = 2
        /\ Cur = [agent_pos |-> <<0, 0>>,
                  vase_states |-> <<[k |-> <<1, 1>>, v |-> TRUE]>>]) =>
          \A r1 \in {get_next_state(heap, s, EAST)} :
              \A r2 \in {get_next_state(r1.heap, r1.state, SOUTH)} :
                  Content(r2.heap, r2.state) =
                      [agent_pos |-> <<1, 1>>,
                       vase_states |-> <<[k |-> <<1, 1>>, v |-> FALSE]>>]

\* On the 2 x 2 grid with one intact vase at (1, 1), a walk from (0, 0) that
\* never left the grid has arrived at (1, 1) and gone on to (1, 0): the sum
\* of its deltas is (1, 0) and the vase is broken.
C13_Witness ==
    /\ width = 2
    /\ height = 2
    /\ InitContent = [agent_pos |-> <<0, 0>>,
                      vase_states |-> <<[k |-> <<1, 1>>, v |-> TRUE]>>]
    /\ path.ok
    /\ path.delta = <<1, 0>>
    /\ path.entered = {<<1, 1>>}
    /\ Cur.agent_pos = <<1, 0>>
    /\ ~Get(Cur.vase_states, <<1, 1>>)

\* The dicts with the entries of d in another insertion order: reversed, and
\* rotated by one.
Reorderings(d) ==
    {Reverse(d), [i \in DOMAIN d |-> d[(i % Len(d)) + 1]]}

\* States that differ from c in one respect: the agent elsewhere (on or just
\* off the grid), one flag flipped, a vase location missing, one too many.
Differing(c) ==
    {[c EXCEPT !.agent_pos = pos] :
        pos \in (Cells(width, height) \cup {<<width, 0>>}) \ {c.agent_pos}}
    \cup {[c EXCEPT !.vase_states[i].v = ~c.vase_states[i].v] :
             i \in DOMAIN c.vase_states}
    \cup {[c EXCEPT !.vase_states = SubSeq(c.vase_states, 2, Len(c.vase_states))] :
             i \in DOMAIN c.vase_states}
    \cup {[c EXCEPT !.vase_states =
                        Append(c.vase_states, [k |-> <<width, 0>>, v |-> FALSE])]}

\* C14: equality and hash are canonical. A state with the position and the
\* location-to-flag mapping of the current state, its vase locations inserted
\* in another order, is equal to it (both ways), has its hash, and finds its
\* index in state_num (or fails as it does); a state that differs in the
\* position, in the set of vase locations or in a flag is not equal to it
\* (either way), also when its insertion order differs. A lookup made with a
\* reordered initial state returned the initial state's index.
C14_Canonical ==
    /\ \A d \in Reorderings(Cur.vase_states) :
          \A b \in {[Cur EXCEPT !.vase_states = d]} :
              /\ RoomState_eq(Cur, b)
              /\ RoomState_eq(b, Cur)
              /\ RoomState_hash(Cur) = RoomState_hash(b)
              /\ Built => IndexOf(b) = IndexOf(Cur)
              /\ \A o \in Differing(b) :
                    ~RoomState_eq(Cur, o) /\ ~RoomState_eq(o, Cur)
    /\ \A o \in Differing(Cur) : ~RoomState_eq(Cur, o) /\ ~RoomState_eq(o, Cur)
    /\ (/\ result.kind # "None"
        /\ result.op = "get_num_from_state"
        /\ SameState(result.arg, InitContent)) =>
          /\ result.kind = IndexOf(InitContent).kind
          /\ result.kind = "num" => result.val = IndexOf(InitContent).val

\* get_num_from_state was called with the initial state rebuilt with its two
\* vases, one intact and one broken, inserted in the opposite order, and
\* returned an index.
C14_Witness ==
    /\ result.kind = "num"
    /\ result.op = "get_num_from_state"
    /\ Len(result.arg.vase_states) = 2
    /\ result.arg.vase_states[1].v # result.arg.vase_states[2].v
    /\ result.arg.vase_states # InitContent.vase_states
    /\ SameState(result.arg, InitContent)

\* get_next_state(state, action) leaves every object that exists before the
\* call as it is.
Untouched(state, action) ==
    \A r \in {get_next_state(heap, state, action)} :
        \A id \in DOMAIN heap : id \in DOMAIN r.heap /\ r.heap[id] = heap[id]

\* C15: states and index tables are read-only after the build. In every
\* state, get_next_state on the current state modifies no existing vase
\* layout, for any action, and once the states are enumerated the same holds
\* of get_next_state on every stored state (the stored states of one layout
\* share one mapping). In every step taken after enumeration, state_num,
\* num_state and nS are unchanged, and every mapping the initial state or a
\* stored state refers to still exists with the content it had.
C15_ReadOnly ==
    /\ [](/\ \A action \in Actions : Untouched(s, action)
          /\ (Built /\ si = None /\ result = None) =>
                \A n \in DOMAIN num_state : \A action \in Actions :
                    Untouched(num_state[n], action))
    /\ [][Built =>
             /\ UNCHANGED <<state_num, num_state, nS, init_state>>
             /\ \A id \in TableIds(init_state, state_num, num_state) :
                   id \in DOMAIN heap' /\ heap'[id] = heap[id]]_vars

\* A trajectory has broken a vase; the stored states of the all-intact
\* layout, which share one mapping, still show every vase intact.
C15_Witness ==
    /\ pc = "ready"
    /\ si.kind = "num"
    /\ \E key \in Keys(Cur.vase_states) :
          Get(InitContent.vase_states, key) /\ ~Get(Cur.vase_states, key)
    /\ \E i, j \in DOMAIN state_num :
          /\ i # j
          /\ state_num[i].key.vase_states = state_num[j].key.vase_states
          /\ \A e \in DOMAIN heap[state_num[i].key.vase_states] :
                heap[state_num[i].key.vase_states][e].v

\* C16: reachable states are indexed even from an unvalidated initial state.
\* The initial state (agent in bounds, possibly on an intact vase) is a key
\* of state_num exactly when its agent is not on an intact vase; the state
\* get_next_state returns for the current state and any action is valid and
\* is a key of state_num; and so is the current state of every trajectory
\* that has taken one or more steps.
C16_ReachableIndexed ==
    Built =>
        /\ InGrid(InitContent.agent_pos)
        /\ Enumerated(InitContent) <=> ~AgentOnIntact(InitContent)
        /\ IndexOf(InitContent).kind = "num" <=> ~AgentOnIntact(InitContent)
        /\ \A action \in Actions :
              \A n \in {Succ(action)} : ValidState(n) /\ Enumerated(n)
        /\ si # None =>
              /\ ValidState(Cur)
              /\ Enumerated(Cur)
              /\ IndexOf(Cur).kind = "num"

\* The initial state has the agent on an intact vase and is not a key of
\* state_num; a trajectory from it has broken that vase and moved on, and its
\* current state is a key.
C16_Witness ==
    /\ pc = "ready"
    /\ AgentOnIntact(InitContent)
    /\ IndexOf(InitContent) = KeyError
    /\ si = KeyError
    /\ Cur.agent_pos # InitContent.agent_pos
    /\ ~Get(Cur.vase_states, InitContent.agent_pos)
    /\ IndexOf(Cur).kind = "num"

\* The number of vases flagged True in a state content.
Intact(c) == Cardinality({i \in DOMAIN c.vase_states : c.vase_states[i].v})

\* C17: the vase layout eventually stabilises. Along every walk (any start
\* state, any actions, for ever): the number of steps that changed the layout
\* is at most the number of vases intact at the start; the broken-vase count
\* (component 0 of s_to_f) never decreases and grows by at most 1 in a step;
\* and from some step on no step changes the layout.
C17_Stabilises ==
    /\ [](changes <= Intact(InitContent))
    /\ [][/\ s_to_f(Cur')[1] >= s_to_f(Cur)[1]
          /\ s_to_f(Cur')[1] <= s_to_f(Cur)[1] + 1]_vars
    /\ <>[][AsMap(Cur'.vase_states) = AsMap(Cur.vase_states)]_vars

\* A walk that started with two intact vases has changed the layout twice:
\* both are broken, the broken-vase count is 2, and no action changes the
\* layout any more.
C17_Witness ==
    /\ Intact(InitContent) = 2
    /\ changes = 2
    /\ s_to_f(InitContent)[1] = 0
    /\ s_to_f(Cur)[1] = 2
    /\ \A action \in Actions :
          AsMap(Succ(action).vase_states) = AsMap(Cur.vase_states)

====
